---------------------------- MODULE Spec2Model ----------------------------
(***************************************************************************)
(* Stagecoach dynamic programming (src/stagecoach.py): the validator, the  *)
(* backward pass of solve_stagecoach_dp, the representative-path walk and  *)
(* reconstruct_all_paths, as a state machine over one call of the solver.  *)
(*                                                                         *)
(* Nodes are natural numbers (the source uses strings; only equality and   *)
(* the declared order inside a layer matter).  layers is a sequence of     *)
(* sequences of nodes.  edges models the dict of dicts in its iteration    *)
(* order: a sequence of entries [u, nbrs], nbrs a sequence of [v, w].      *)
(* Values are Python floats restricted to small integers, +inf, -inf and   *)
(* nan; -0.0 and 0.0 are one value because ==, < and > do not tell them    *)
(* apart.                                                                  *)
(***************************************************************************)
EXTENDS Integers, Sequences, FiniteSets, TLC

VARIABLES layers, edges, start, goal, opt_mode, combine_op,
          pc, t, i, f_star, policy, rows, tables, path, u, err, all_paths,
          session_state

vars == <<layers, edges, start, goal, opt_mode, combine_op,
          pc, t, i, f_star, policy, rows, tables, path, u, err, all_paths,
          session_state>>

inputs == <<layers, edges, start, goal, opt_mode, combine_op>>

(***************************************************************************)
(* Bounds of the checked input space: the number of stages, the number of  *)
(* node pairs in consecutive stages (the possible edges) and, for the raw  *)
(* inputs of the validator, the number of insertions that build edges.     *)
(***************************************************************************)
MaxStages == 4
MaxPairs == 5
MaxRawEdges == 2

(***************************************************************************)
(* Fixed domains of the drawn inputs: the widths of a stage, the edge      *)
(* weights (a negative one, zero, a positive one) and the node names of    *)
(* the raw inputs.                                                         *)
(***************************************************************************)
Widths == {1, 2}
Weights == {-1, 0, 1}
RawNames == {1, 2, 3}

(***************************************************************************)
(* Python float values and the operations the solver applies to them.      *)
(***************************************************************************)
Fin(n) == [k |-> "fin", v |-> n]
PInf == [k |-> "inf", v |-> 1]
NInf == [k |-> "inf", v |-> -1]
NaN == [k |-> "nan", v |-> 0]
NoneVal == [k |-> "none", v |-> 0]

Sign(n) == IF n > 0 THEN 1 ELSE IF n < 0 THEN -1 ELSE 0

FAdd(a, b) ==
    IF a.k = "nan" \/ b.k = "nan" THEN NaN
    ELSE IF a.k = "inf" /\ b.k = "inf" THEN (IF a.v = b.v THEN a ELSE NaN)
    ELSE IF a.k = "inf" THEN a
    ELSE IF b.k = "inf" THEN b
    ELSE Fin(a.v + b.v)

FMul(a, b) ==
    IF a.k = "nan" \/ b.k = "nan" THEN NaN
    ELSE IF a.k = "inf" \/ b.k = "inf"
         THEN (IF Sign(a.v) * Sign(b.v) = 0 THEN NaN
               ELSE IF Sign(a.v) * Sign(b.v) > 0 THEN PInf ELSE NInf)
    ELSE Fin(a.v * b.v)

FLt(a, b) ==
    /\ a.k # "nan"
    /\ b.k # "nan"
    /\ a # b
    /\ \/ a = NInf
       \/ b = PInf
       \/ a.k = "fin" /\ b.k = "fin" /\ a.v < b.v

FGt(a, b) == FLt(b, a)

FEq(a, b) == a.k # "nan" /\ b.k # "nan" /\ a = b

(***************************************************************************)
(* Sequences and the dict of dicts.                                        *)
(***************************************************************************)
Range(s) == {s[j] : j \in 1..Len(s)}

RECURSIVE Flatten(_)
Flatten(ls) == IF ls = <<>> THEN <<>> ELSE Head(ls) \o Flatten(Tail(ls))

Keys(d) == {d[j].u : j \in 1..Len(d)}

EdgesGet(d, x) ==
    IF x \in Keys(d) THEN (CHOOSE e \in Range(d) : e.u = x).nbrs ELSE <<>>

NbrKeys(nbrs) == {nbrs[j].v : j \in 1..Len(nbrs)}

NbrWeight(nbrs, y) == (CHOOSE e \in Range(nbrs) : e.v = y).w

HasEdge(x, y) == y \in NbrKeys(EdgesGet(edges, x))

Weight(x, y) == NbrWeight(EdgesGet(edges, x), y)

(***************************************************************************)
(* _validate_stagecoach.  The result is [kind |-> "ok"] or the error that  *)
(* is raised: its kind, the node (or edge node -> to) it names.            *)
(***************************************************************************)
Err(kind, n, m, s) == [kind |-> kind, node |-> n, to |-> m, stage |-> s]

NoErr == Err("none", 0, 0, 0)

\* stage_of as the loop of lines 39-43 leaves it (0-based stage index).
StageOf(ls) ==
    [n \in Range(Flatten(ls)) |->
        (CHOOSE k \in 1..Len(ls) :
            /\ n \in Range(ls[k])
            /\ \A k2 \in 1..(k - 1) : n \notin Range(ls[k2])) - 1]

\* Check 1 (line 36).
LayersWellFormed(ls) == ls # <<>> /\ \A k \in 1..Len(ls) : ls[k] # <<>>

\* Check 2 (lines 39-43): positions of the flattened layers whose node was
\* already recorded.
DupPositions(ls) ==
    {j \in 1..Len(Flatten(ls)) :
        \E j2 \in 1..(j - 1) : Flatten(ls)[j2] = Flatten(ls)[j]}

Min(S) == CHOOSE x \in S : \A y \in S : x <= y

\* The checks of the edge loop (lines 50-58) in the order they are made:
\* per entry the source, then per neighbour the destination.
RECURSIVE NbrScan(_, _)
NbrScan(x, nbrs) ==
    IF nbrs = <<>> THEN <<>>
    ELSE <<[src |-> FALSE, a |-> x, b |-> Head(nbrs).v]>> \o NbrScan(x, Tail(nbrs))

RECURSIVE EdgeScan(_)
EdgeScan(d) ==
    IF d = <<>> THEN <<>>
    ELSE <<[src |-> TRUE, a |-> Head(d).u, b |-> Head(d).u]>>
         \o NbrScan(Head(d).u, Head(d).nbrs) \o EdgeScan(Tail(d))

\* EdgeCheck with line 57 rejecting only edges that do not move forward.
EdgeCheckForwardOnly(c, so) ==
    IF c.src
    THEN (IF c.a \notin DOMAIN so THEN Err("unknown_node", c.a, 0, 0) ELSE NoErr)
    ELSE IF c.a \notin DOMAIN so THEN NoErr
    ELSE IF c.b \notin DOMAIN so THEN Err("unknown_node", c.b, 0, 0)
    ELSE IF so[c.b] <= so[c.a] THEN Err("edge_stage", c.a, c.b, 0)
    ELSE NoErr

\* The error one check of the edge loop raises, or NoErr.
EdgeCheck(c, so) ==
    IF c.src
    THEN (IF c.a \notin DOMAIN so THEN Err("unknown_node", c.a, 0, 0) ELSE NoErr)
    ELSE IF c.a \notin DOMAIN so THEN NoErr
    ELSE IF c.b \notin DOMAIN so THEN Err("unknown_node", c.b, 0, 0)
    ELSE IF so[c.b] # so[c.a] + 1 THEN Err("edge_stage", c.a, c.b, 0)
    ELSE NoErr

\* EdgeLoop as two passes: every unknown-node check, then every stage check.
EdgeLoopTwoPass(d, so) ==
    LET sc == EdgeScan(d)
        bad5 == {j \in 1..Len(sc) : EdgeCheck(sc[j], so).kind = "unknown_node"}
        bad6 == {j \in 1..Len(sc) : EdgeCheck(sc[j], so).kind = "edge_stage"}
    IN  IF bad5 # {} THEN EdgeCheck(sc[Min(bad5)], so)
        ELSE IF bad6 # {} THEN EdgeCheck(sc[Min(bad6)], so)
        ELSE NoErr

\* Lines 50-58: the first check of the scan that fails decides.
EdgeLoop(d, so) ==
    LET sc == EdgeScan(d)
        bad == {j \in 1..Len(sc) : EdgeCheck(sc[j], so) # NoErr}
    IN  IF bad = {} THEN NoErr ELSE EdgeCheck(sc[Min(bad)], so)

_validate_stagecoach(ls, d, st, gl) ==
    IF ~LayersWellFormed(ls) THEN Err("layers", 0, 0, 0)
    ELSE IF DupPositions(ls) # {}
         THEN Err("duplicate", Flatten(ls)[Min(DupPositions(ls))], 0, 0)
    ELSE LET so == StageOf(ls) IN
         IF st \notin DOMAIN so \/ gl \notin DOMAIN so
         THEN Err("startgoal_unknown", 0, 0, 0)
         ELSE IF so[st] # 0 \/ so[gl] # Len(ls) - 1
              THEN Err("startgoal_stage", 0, 0, 0)
              ELSE IF EdgeLoop(d, so) # NoErr THEN EdgeLoop(d, so)
                   ELSE Err("ok", 0, 0, 0)

(***************************************************************************)
(* solve_stagecoach_dp: the pieces of the backward pass.                   *)
(***************************************************************************)
\* K = len(layers) - 1 (line 80).
K == Len(layers) - 1

\* Identity with goal initialised to 0.0 for both operators.
IdentityZero(op) == Fin(0)

\* Line 83: the value of goal.
Identity(op) == IF op = "+" THEN Fin(0) ELSE Fin(1)

\* agg_init with float('inf') for both modes.
agg_initInf(mode) == PInf

\* Lines 87-92.
agg_init(mode) == IF mode = "min" THEN PInf ELSE NInf

better(mode, a, b) == IF mode = "min" THEN FLt(a, b) ELSE FGt(a, b)

\* f_star.get(v, agg_init) of lines 111 and 113.
FStarGet(fs, y, mode) == IF y \in DOMAIN fs THEN fs[y] ELSE agg_init(mode)

\* Lines 110-113.
Combine(op, a, b) == IF op = "+" THEN FAdd(a, b) ELSE FMul(a, b)

Candidate(nbrs, y, fs, mode, op) ==
    Combine(op, Fin(NbrWeight(nbrs, y)), FStarGet(fs, y, mode))

\* BestStep with line 118 appending to best_vs instead of resetting it.
BestStepNoReset(acc, y, tot, mode) ==
    IF better(mode, tot, acc.best_val)
    THEN [acc EXCEPT !.best_val = tot, !.best_vs = Append(acc.best_vs, y)]
    ELSE IF FEq(tot, acc.best_val)
         THEN [acc EXCEPT !.best_vs = Append(acc.best_vs, y)]
         ELSE acc

\* Lines 116-120: the update of (best_val, best_vs) by one candidate.
BestStep(acc, y, tot, mode) ==
    IF better(mode, tot, acc.best_val)
    THEN [acc EXCEPT !.best_val = tot, !.best_vs = <<y>>]
    ELSE IF FEq(tot, acc.best_val)
         THEN [acc EXCEPT !.best_vs = Append(acc.best_vs, y)]
         ELSE acc

\* Lines 108-122: the loop over next_layer for one node with neighbours nbrs.
RECURSIVE NextLayerLoop(_, _, _, _, _, _)
NextLayerLoop(next_layer, nbrs, fs, mode, op, acc) ==
    IF next_layer = <<>> THEN acc
    ELSE LET y == Head(next_layer) IN
         IF y \in NbrKeys(nbrs)
         THEN LET tot == Candidate(nbrs, y, fs, mode, op)
                  acc1 == BestStep(acc, y, tot, mode)
              IN  NextLayerLoop(Tail(next_layer), nbrs, fs, mode, op,
                                [acc1 EXCEPT !.totals = Append(acc.totals, tot)])
         ELSE NextLayerLoop(Tail(next_layer), nbrs, fs, mode, op,
                            [acc EXCEPT !.totals = Append(acc.totals, NoneVal)])

\* Lines 103-122 for node x of stage index s (0-based).
NodeScan(x, s) ==
    NextLayerLoop(layers[s + 2], EdgesGet(edges, x), f_star, opt_mode, combine_op,
                  [best_val |-> agg_init(opt_mode), best_vs |-> <<>>, totals |-> <<>>])

\* policy.get(x) of line 145 and policy.get(x, []) of line 167.
PolicyGet(pol, x) == IF x \in DOMAIN pol THEN pol[x] ELSE <<>>

(***************************************************************************)
(* reconstruct_all_paths (lines 159-171): dfs returns the paths it appends *)
(* to paths, in order.                                                     *)
(***************************************************************************)
RECURSIVE dfs(_, _, _, _)
RECURSIVE dfsLoop(_, _, _, _)
dfs(pol, gl, x, current) ==
    IF x = gl THEN <<current>>
    ELSE dfsLoop(pol, gl, PolicyGet(pol, x), current)

dfsLoop(pol, gl, vs, current) ==
    IF vs = <<>> THEN <<>>
    ELSE dfs(pol, gl, Head(vs), Append(current, Head(vs)))
         \o dfsLoop(pol, gl, Tail(vs), current)

reconstruct_all_paths(pol, st, gl) == dfs(pol, gl, st, <<st>>)

\* The depth of the recursion of dfs(x, ...) (lines 163-168): the largest
\* number of nested calls, the call on x included.
RECURSIVE dfsDepth(_, _, _)
RECURSIVE dfsLoopDepth(_, _, _)
dfsDepth(pol, gl, x) ==
    IF x = gl THEN 1
    ELSE 1 + dfsLoopDepth(pol, gl, PolicyGet(pol, x))

dfsLoopDepth(pol, gl, vs) ==
    IF vs = <<>> THEN 0
    ELSE LET d1 == dfsDepth(pol, gl, Head(vs))
             d2 == dfsLoopDepth(pol, gl, Tail(vs))
         IN  IF d1 >= d2 THEN d1 ELSE d2

(***************************************************************************)
(* The steps of one call.                                                  *)
(***************************************************************************)
\* Lines 74-84 and 95: argument checks, validation, initialisation.
Call ==
    /\ pc = "call"
    /\ IF opt_mode \notin {"min", "max"}
       THEN /\ pc' = "error"
            /\ err' = Err("opt_mode", 0, 0, 0)
            /\ UNCHANGED <<t, f_star, policy>>
       ELSE IF combine_op \notin {"+", "*"}
       THEN /\ pc' = "error"
            /\ err' = Err("combine_op", 0, 0, 0)
            /\ UNCHANGED <<t, f_star, policy>>
       ELSE IF _validate_stagecoach(layers, edges, start, goal).kind # "ok"
       THEN /\ pc' = "error"
            /\ err' = _validate_stagecoach(layers, edges, start, goal)
            /\ UNCHANGED <<t, f_star, policy>>
       ELSE /\ pc' = "backward"
            /\ t' = K - 1
            /\ f_star' = (goal :> Identity(combine_op))
            /\ policy' = (goal :> <<>>)
            /\ err' = err
    /\ UNCHANGED <<session_state, inputs, i, rows, tables, path, u, all_paths>>

\* Lines 102-132: one node of the current stage.
ProcessNode ==
    /\ pc = "backward"
    /\ t >= 0
    /\ i <= Len(layers[t + 1])
    /\ LET x == layers[t + 1][i]
           r == NodeScan(x, t)
       IN  IF r.best_vs = <<>>
           THEN /\ pc' = "error"
                /\ err' = Err("dead_end", x, 0, t + 1)
                /\ UNCHANGED <<i, f_star, policy, rows>>
           ELSE /\ f_star' = [n \in DOMAIN f_star \cup {x} |->
                                 IF n = x THEN r.best_val ELSE f_star[n]]
                /\ policy' = [n \in DOMAIN policy \cup {x} |->
                                 IF n = x THEN r.best_vs ELSE policy[n]]
                /\ rows' = Append(rows, [node |-> x, totals |-> r.totals,
                                         best |-> r.best_val, next |-> r.best_vs])
                /\ i' = i + 1
                /\ UNCHANGED <<pc, err>>
    /\ UNCHANGED <<session_state, inputs, t, tables, path, u, all_paths>>

\* EndStage with the loop of line 96 stepping by -2.
EndStageSkip ==
    /\ pc = "backward"
    /\ t >= 0
    /\ i > Len(layers[t + 1])
    /\ tables' = Append(tables, [stage |-> t + 1, opt_mode |-> opt_mode,
                                 combine_op |-> combine_op, rows |-> rows])
    /\ t' = t - 2
    /\ i' = 1
    /\ rows' = <<>>
    /\ UNCHANGED <<session_state, inputs, pc, f_star, policy, path, u, err, all_paths>>

\* Lines 134-137 and the loop header of line 96: the stage's table is
\* appended and the loop moves to the previous stage.
EndStage ==
    /\ pc = "backward"
    /\ t >= 0
    /\ i > Len(layers[t + 1])
    /\ tables' = Append(tables, [stage |-> t + 1, opt_mode |-> opt_mode,
                                 combine_op |-> combine_op, rows |-> rows])
    /\ t' = t - 1
    /\ i' = 1
    /\ rows' = <<>>
    /\ UNCHANGED <<session_state, inputs, pc, f_star, policy, path, u, err, all_paths>>

\* Lines 142-143.
BeginWalk ==
    /\ pc = "backward"
    /\ t < 0
    /\ pc' = "walk"
    /\ path' = <<start>>
    /\ u' = start
    /\ UNCHANGED <<session_state, inputs, t, i, f_star, policy, rows, tables, err, all_paths>>

\* WalkStep with line 148 taking nxts[-1].
WalkStepLast ==
    /\ pc = "walk"
    /\ u # goal
    /\ IF PolicyGet(policy, u) = <<>>
       THEN /\ pc' = "error"
            /\ err' = Err("path_buntu", u, 0, 0)
            /\ UNCHANGED <<path, u>>
       ELSE /\ path' = Append(path, PolicyGet(policy, u)[Len(PolicyGet(policy, u))])
            /\ u' = PolicyGet(policy, u)[Len(PolicyGet(policy, u))]
            /\ UNCHANGED <<pc, err>>
    /\ UNCHANGED <<session_state, inputs, t, i, f_star, policy, rows, tables, all_paths>>

\* Lines 144-150: one iteration of the while loop.
WalkStep ==
    /\ pc = "walk"
    /\ u # goal
    /\ IF PolicyGet(policy, u) = <<>>
       THEN /\ pc' = "error"
            /\ err' = Err("path_buntu", u, 0, 0)
            /\ UNCHANGED <<path, u>>
       ELSE /\ path' = Append(path, PolicyGet(policy, u)[1])
            /\ u' = PolicyGet(policy, u)[1]
            /\ UNCHANGED <<pc, err>>
    /\ UNCHANGED <<session_state, inputs, t, i, f_star, policy, rows, tables, all_paths>>

\* Lines 152-153: the result is returned.
Return ==
    /\ pc = "walk"
    /\ u = goal
    /\ pc' = "done"
    /\ UNCHANGED <<session_state, inputs, t, i, f_star, policy, rows, tables, path, u, err, all_paths>>

\* result.optimal_cost (line 152).
optimal_cost == f_star[start]

\* The caller's reconstruct_all_paths(result.policy, start, goal)
\* (src/app.py line 281, src/stagecoach.py line 195).
Reconstruct ==
    /\ pc = "done"
    /\ pc' = "reconstructed"
    /\ all_paths' = reconstruct_all_paths(policy, start, goal)
    /\ UNCHANGED <<session_state, inputs, t, i, f_star, policy, rows, tables, path, u, err>>

Next == Call \/ ProcessNode \/ EndStage \/ BeginWalk \/ WalkStep \/ Return \/ Reconstruct

(***************************************************************************)
(* Inputs.  InitSolver draws structurally valid layered graphs: the layers *)
(* of a shape (the widths of the stages), nodes numbered in declared       *)
(* order, any subset of the stage-to-next-stage pairs as edges with any    *)
(* weight, start in the first stage and goal in the last; unrecognised     *)
(* opt_mode or combine_op are drawn with the smallest graphs only, the     *)
(* call failing before it looks at the graph.  InitRaw draws arbitrary     *)
(* small layers, edges and goal, valid or not; names being                 *)
(* interchangeable, start is the name 1.                                   *)
(***************************************************************************)
RECURSIVE SumTo(_, _)
SumTo(s, k) == IF k = 0 THEN 0 ELSE s[k] + SumTo(s, k - 1)

NumPairs(s) == SumTo([k \in 1..(Len(s) - 1) |-> s[k] * s[k + 1]], Len(s) - 1)

Shapes ==
    {s \in UNION {[1..n -> Widths] : n \in 1..MaxStages} : NumPairs(s) <= MaxPairs}

ShapeLayers(s) ==
    [k \in 1..Len(s) |-> [j \in 1..s[k] |-> SumTo(s, k - 1) + j]]

ShapePairs(ls) ==
    UNION {{<<ls[k][a], ls[k + 1][b]>> : a \in 1..Len(ls[k]), b \in 1..Len(ls[k + 1])} :
              k \in 1..(Len(ls) - 1)}

RECURSIVE NbrsOf(_, _, _)
NbrsOf(x, next_layer, wt) ==
    IF next_layer = <<>> THEN <<>>
    ELSE (IF <<x, Head(next_layer)>> \notin DOMAIN wt THEN <<>>
          ELSE <<[v |-> Head(next_layer), w |-> wt[<<x, Head(next_layer)>>]]>>)
         \o NbrsOf(x, Tail(next_layer), wt)

RECURSIVE EntriesOf(_, _, _)
EntriesOf(layer, next_layer, wt) ==
    IF layer = <<>> THEN <<>>
    ELSE (IF NbrsOf(Head(layer), next_layer, wt) = <<>> THEN <<>>
          ELSE <<[u |-> Head(layer), nbrs |-> NbrsOf(Head(layer), next_layer, wt)]>>)
         \o EntriesOf(Tail(layer), next_layer, wt)

RECURSIVE EdgesOf(_, _, _)
EdgesOf(ls, k, wt) ==
    IF k >= Len(ls) THEN <<>>
    ELSE EntriesOf(ls[k], ls[k + 1], wt) \o EdgesOf(ls, k + 1, wt)

\* Lines 74-77: the recognised configurations.
ConfigOk == opt_mode \in {"min", "max"} /\ combine_op \in {"+", "*"}

InitState ==
    /\ pc = "call"
    /\ t = 0
    /\ i = 1
    /\ f_star = <<>>
    /\ policy = <<>>
    /\ rows = <<>>
    /\ tables = <<>>
    /\ path = <<>>
    /\ u = 0
    /\ err = NoErr
    /\ all_paths = <<>>
    /\ session_state = [page |-> "input", cfg |-> NoneVal, result |-> NoneVal,
                        all_paths |-> <<>>, presets |-> <<>>]

InitSolver ==
    /\ \E s \in Shapes :
        /\ layers = ShapeLayers(s)
        /\ \E E \in SUBSET ShapePairs(ShapeLayers(s)) : \E wt \in [E -> Weights] :
              edges = EdgesOf(ShapeLayers(s), 1, wt)
        /\ opt_mode \in {"min", "max", "avg"}
        /\ combine_op \in {"+", "*", "^"}
        /\ ConfigOk \/ NumPairs(s) <= 1
        /\ start \in Range(ShapeLayers(s)[1])
        /\ goal \in Range(ShapeLayers(s)[Len(s)])
    /\ InitState

Spec == InitSolver /\ [][Next]_vars

\* Sequences over S of length at most n.
SeqsUpTo(S, n) == UNION {[1..m -> S] : m \in 0..n}

RawLayers ==
    {ls \in SeqsUpTo(SeqsUpTo(RawNames, Cardinality(Widths)), Cardinality(RawNames)) :
        Len(Flatten(ls)) <= Cardinality(RawNames)}

\* d[a][b] = w on the dict of dicts d (b = 0: d.setdefault(a, {}) only).
RECURSIVE DictPut(_, _, _, _)
DictPut(d, a, b, w) ==
    IF d = <<>>
    THEN <<[u |-> a, nbrs |-> IF b = 0 THEN <<>> ELSE <<[v |-> b, w |-> w]>>]>>
    ELSE IF Head(d).u = a
         THEN <<[u |-> a,
                 nbrs |-> IF b = 0 \/ b \in NbrKeys(Head(d).nbrs) THEN Head(d).nbrs
                          ELSE Append(Head(d).nbrs, [v |-> b, w |-> w])]>> \o Tail(d)
         ELSE <<Head(d)>> \o DictPut(Tail(d), a, b, w)

RECURSIVE DictOf(_)
DictOf(ps) ==
    IF ps = <<>> THEN <<>>
    ELSE DictPut(DictOf(SubSeq(ps, 1, Len(ps) - 1)),
                 ps[Len(ps)][1], ps[Len(ps)][2], 1)

RawEdges ==
    {DictOf(ps) : ps \in SeqsUpTo(RawNames \X (RawNames \cup {0}), MaxRawEdges)}

InitRaw ==
    /\ layers \in RawLayers
    /\ edges \in RawEdges
    /\ start = 1
    /\ goal \in RawNames
    /\ opt_mode = "min"
    /\ combine_op = "+"
    /\ InitState

SpecValidate == InitRaw /\ [][Next]_vars

(***************************************************************************)
(* The call as a function of its arguments: the same backward pass and     *)
(* walk, run to completion.  The result is [kind |-> "ok", f_star, policy, *)
(* path] or the error raised.                                              *)
(***************************************************************************)
\* Lines 102-132: the nodes of stage s (0-based) from position j on.
RECURSIVE StageLoop(_, _, _, _, _, _, _)
StageLoop(ls, d, s, j, mode, op, acc) ==
    IF j > Len(ls[s + 1]) THEN acc
    ELSE LET x == ls[s + 1][j]
             r == NextLayerLoop(ls[s + 2], EdgesGet(d, x), acc.f_star, mode, op,
                                [best_val |-> agg_init(mode), best_vs |-> <<>>,
                                 totals |-> <<>>])
         IN  IF r.best_vs = <<>>
             THEN [kind |-> "dead_end", node |-> x, stage |-> s + 1]
             ELSE StageLoop(ls, d, s, j + 1, mode, op,
                    [acc EXCEPT
                       !.f_star = [n \in DOMAIN acc.f_star \cup {x} |->
                                      IF n = x THEN r.best_val ELSE acc.f_star[n]],
                       !.policy = [n \in DOMAIN acc.policy \cup {x} |->
                                      IF n = x THEN r.best_vs ELSE acc.policy[n]]])

\* Line 96: for t in range(K - 1, -1, -1), from stage s down.
RECURSIVE BackwardLoop(_, _, _, _, _, _)
BackwardLoop(ls, d, s, mode, op, acc) ==
    IF s < 0 \/ acc.kind # "ok" THEN acc
    ELSE BackwardLoop(ls, d, s - 1, mode, op, StageLoop(ls, d, s, 1, mode, op, acc))

\* Lines 144-150: the while loop from node x with the path p so far.
RECURSIVE WalkLoop(_, _, _, _)
WalkLoop(gl, acc, x, p) ==
    IF x = gl THEN [acc EXCEPT !.path = p]
    ELSE IF PolicyGet(acc.policy, x) = <<>>
         THEN [kind |-> "path_buntu", node |-> x, stage |-> 0]
         ELSE WalkLoop(gl, acc, PolicyGet(acc.policy, x)[1],
                       Append(p, PolicyGet(acc.policy, x)[1]))

\* Lines 65-153.
solve_stagecoach_dp(ls, d, st, gl, mode, op) ==
    IF mode \notin {"min", "max"} THEN [kind |-> "opt_mode", node |-> 0, stage |-> 0]
    ELSE IF op \notin {"+", "*"} THEN [kind |-> "combine_op", node |-> 0, stage |-> 0]
    ELSE IF _validate_stagecoach(ls, d, st, gl).kind # "ok"
    THEN [kind |-> _validate_stagecoach(ls, d, st, gl).kind,
          node |-> _validate_stagecoach(ls, d, st, gl).node,
          stage |-> _validate_stagecoach(ls, d, st, gl).stage]
    ELSE LET back == BackwardLoop(ls, d, Len(ls) - 2, mode, op,
                         [kind |-> "ok", f_star |-> (gl :> Identity(op)),
                          policy |-> (gl :> <<>>), path |-> <<>>])
         IN  IF back.kind # "ok" THEN back ELSE WalkLoop(gl, back, st, <<st>>)

(***************************************************************************)
(* Inputs with strictly positive weights and the additive operator.        *)
(***************************************************************************)
PosWeights == {1, 2}

InitPositive ==
    /\ \E s \in Shapes :
        /\ layers = ShapeLayers(s)
        /\ \E E \in SUBSET ShapePairs(ShapeLayers(s)) : \E wt \in [E -> PosWeights] :
              edges = EdgesOf(ShapeLayers(s), 1, wt)
        /\ start \in Range(ShapeLayers(s)[1])
        /\ goal \in Range(ShapeLayers(s)[Len(s)])
    /\ opt_mode \in {"min", "max"}
    /\ combine_op = "+"
    /\ InitState

SpecPositive == InitPositive /\ [][Next]_vars

(***************************************************************************)
(* The application (src/app.py).  session_state is st.session_state: the   *)
(* page shown, the stored cfg, result and all_paths, and the presets by    *)
(* name.  Each action is one run of the script for one button; the form    *)
(* fields of a submission are the variables layers, edges, start, goal,    *)
(* opt_mode and combine_op, holding what parse_inputs returns.  An upload  *)
(* that is not JSON stops the run before any assignment (lines 250-252),   *)
(* which is a step that changes nothing.                                   *)
(***************************************************************************)
\* Lines 132-139: one error per node that was seen before.
RECURSIVE DupErrors(_, _)
DupErrors(fl, j) ==
    IF j > Len(fl) THEN <<>>
    ELSE (IF \E j2 \in 1..(j - 1) : fl[j2] = fl[j]
          THEN <<Err("duplicate", fl[j], 0, 0)>> ELSE <<>>)
         \o DupErrors(fl, j + 1)

\* Lines 152-167: the errors appended for one check of the edge loop.
AppEdgeCheck(c, so) ==
    IF c.src
    THEN (IF c.a \notin DOMAIN so THEN <<Err("unknown_node", c.a, 0, 0)>> ELSE <<>>)
    ELSE IF c.a \notin DOMAIN so THEN <<>>
    ELSE IF c.b \notin DOMAIN so THEN <<Err("unknown_node", c.b, 0, 0)>>
    ELSE IF so[c.b] # so[c.a] + 1 THEN <<Err("edge_stage", c.a, c.b, 0)>>
    ELSE <<>>

RECURSIVE AppEdgeErrors(_, _)
AppEdgeErrors(sc, so) ==
    IF sc = <<>> THEN <<>>
    ELSE AppEdgeCheck(Head(sc), so) \o AppEdgeErrors(Tail(sc), so)

\* Lines 126-172: the list of errors.
validate_layers_edges(ls, d, st, gl) ==
    LET so == StageOf(ls)
        early == DupErrors(Flatten(ls), 1)
                 \o (IF st \notin DOMAIN so
                     THEN <<Err("startgoal_unknown", st, 0, 0)>> ELSE <<>>)
                 \o (IF gl \notin DOMAIN so
                     THEN <<Err("startgoal_unknown", gl, 0, 0)>> ELSE <<>>)
    IN  IF early # <<>> THEN early ELSE AppEdgeErrors(EdgeScan(d), so)

\* The values the form is submitted with.
FormLayers == {<<<<1>>, <<2, 3>>>>, <<<<1>>, <<2>>, <<3>>>>}

FormEdges == {DictOf(ps) : ps \in SeqsUpTo({<<1, 2>>, <<1, 3>>, <<2, 3>>}, MaxRawEdges)}

\* The name a preset is saved under (line 378).
PresetNames == {"konfigurasi-1"}

\* Lines 245-290: 'Jalankan Solver' on the input page.
Submit ==
    /\ session_state.page = "input"
    /\ layers' \in FormLayers
    /\ edges' \in FormEdges
    /\ start' = 1
    /\ goal' \in {2, 3}
    /\ opt_mode' = "min"
    /\ combine_op' = "+"
    /\ LET errors == validate_layers_edges(layers', edges', start', goal')
           result == solve_stagecoach_dp(layers', edges', start', goal',
                                         opt_mode', combine_op')
       IN  IF errors # <<>> \/ result.kind # "ok"
           THEN UNCHANGED session_state
           ELSE session_state' =
                  [session_state EXCEPT
                     !.cfg = [layers |-> layers', edges |-> edges', start |-> start',
                              goal |-> goal', opt_mode |-> opt_mode',
                              combine_op |-> combine_op'],
                     !.result = result,
                     !.all_paths = reconstruct_all_paths(result.policy, start', goal'),
                     !.page = "output"]
    /\ UNCHANGED <<pc, t, i, f_star, policy, rows, tables, path, u, err, all_paths>>

\* Lines 64-66: the navbar's Input button.
NavInput ==
    /\ session_state' = [session_state EXCEPT !.page = "input"]
    /\ UNCHANGED <<inputs, pc, t, i, f_star, policy, rows, tables, path, u, err, all_paths>>

\* Lines 67-69: the navbar's Output button.
NavOutput ==
    /\ session_state' = [session_state EXCEPT !.page = "output"]
    /\ UNCHANGED <<inputs, pc, t, i, f_star, policy, rows, tables, path, u, err, all_paths>>

\* Lines 305-307: 'Kembali ke Input' on the output page.
BackToInput ==
    /\ session_state.page = "output"
    /\ session_state' = [session_state EXCEPT !.page = "input"]
    /\ UNCHANGED <<inputs, pc, t, i, f_star, policy, rows, tables, path, u, err, all_paths>>

\* Line 312: the tabs are shown when both cfg and result are set.
TabsShown ==
    /\ session_state.page = "output"
    /\ session_state.cfg # NoneVal
    /\ session_state.result # NoneVal

\* Lines 389-392: 'Simpan sebagai Preset'.
SavePreset ==
    /\ TabsShown
    /\ \E name \in PresetNames :
          session_state' =
            [session_state EXCEPT
               !.presets = [n \in DOMAIN session_state.presets \cup {name} |->
                              IF n = name THEN session_state.cfg
                              ELSE session_state.presets[n]]]
    /\ UNCHANGED <<inputs, pc, t, i, f_star, policy, rows, tables, path, u, err, all_paths>>

\* Lines 401-404: 'Muat: name'.
LoadPreset ==
    /\ TabsShown
    /\ \E name \in DOMAIN session_state.presets :
          session_state' = [session_state EXCEPT !.cfg = session_state.presets[name],
                                                 !.page = "input"]
    /\ UNCHANGED <<inputs, pc, t, i, f_star, policy, rows, tables, path, u, err, all_paths>>

NextApp == Submit \/ NavInput \/ NavOutput \/ BackToInput \/ SavePreset \/ LoadPreset

\* Lines 187-196, with the defaults of the form.
InitApp ==
    /\ layers = <<<<1>>, <<2, 3>>>>
    /\ edges = <<>>
    /\ start = 1
    /\ goal = 2
    /\ opt_mode = "min"
    /\ combine_op = "+"
    /\ InitState

SpecApp == InitApp /\ [][NextApp]_vars

(***************************************************************************)
(* Vocabulary of the properties, stated on the inputs and independent of   *)
(* the solver's own computation: exact integer aggregates of paths and the *)
(* brute-force optimum over all paths of the graph.                        *)
(***************************************************************************)
Solved == pc \in {"done", "reconstructed"}

ValidationKinds ==
    {"layers", "duplicate", "startgoal_unknown", "startgoal_stage",
     "unknown_node", "edge_stage"}

\* What _validate_stagecoach did in this call.
ValidateOutcome ==
    IF pc = "error" /\ err.kind \in ValidationKinds THEN err.kind ELSE "ok"

Known(n) == \E k \in 1..Len(layers) : n \in Range(layers[k])

\* 1-based stage of a known node of duplicate-free layers.
StageIdx(n) == CHOOSE k \in 1..Len(layers) : n \in Range(layers[k])

Ok1 == layers # <<>> /\ \A k \in 1..Len(layers) : Len(layers[k]) > 0

Ok2 ==
    \A j1, j2 \in 1..Len(Flatten(layers)) :
        j1 # j2 => Flatten(layers)[j1] # Flatten(layers)[j2]

Ok3 == Known(start) /\ Known(goal)

Ok4 == start \in Range(layers[1]) /\ goal \in Range(layers[Len(layers)])

Ok5 ==
    \A j \in 1..Len(edges) :
        /\ Known(edges[j].u)
        /\ \A n \in 1..Len(edges[j].nbrs) : Known(edges[j].nbrs[n].v)

\* For edges whose endpoints are known.
Advances(x, y) == StageIdx(y) = StageIdx(x) + 1

Ok6 ==
    \A j \in 1..Len(edges) : \A n \in 1..Len(edges[j].nbrs) :
        (Known(edges[j].u) /\ Known(edges[j].nbrs[n].v))
            => Advances(edges[j].u, edges[j].nbrs[n].v)

Successors(x) == NbrKeys(EdgesGet(edges, x))

\* All paths of the validated graph from x to goal.
RECURSIVE GraphPaths(_)
GraphPaths(x) ==
    IF x = goal THEN {<<x>>}
    ELSE UNION {{<<x>> \o p : p \in GraphPaths(y)} : y \in Successors(x)}

\* The aggregate of the edge weights of path p, accumulated edge by edge
\* from the operator's identity, in exact integers.
RECURSIVE AggInt(_, _)
AggInt(p, n) ==
    IF n <= 1 THEN (IF combine_op = "+" THEN 0 ELSE 1)
    ELSE IF combine_op = "+" THEN AggInt(p, n - 1) + Weight(p[n - 1], p[n])
         ELSE AggInt(p, n - 1) * Weight(p[n - 1], p[n])

PathAgg(p) == AggInt(p, Len(p))

OptInt(S) ==
    CHOOSE m \in S : \A n \in S : IF opt_mode = "min" THEN m <= n ELSE m >= n

OptimalPaths(x) ==
    {p \in GraphPaths(x) : PathAgg(p) = OptInt({PathAgg(q) : q \in GraphPaths(x)})}

IsPath(p) ==
    /\ Len(p) >= 1
    /\ p[1] = start
    /\ p[Len(p)] = goal
    /\ \A n \in 1..(Len(p) - 1) : HasEdge(p[n], p[n + 1]) /\ Advances(p[n], p[n + 1])

\* Every node of every non-terminal stage has an edge into the next stage.
HasNextStageEdge(x) ==
    \E y \in Range(layers[StageIdx(x) + 1]) : HasEdge(x, y)

NonTerminal == UNION {Range(layers[k]) : k \in 1..(Len(layers) - 1)}

(***************************************************************************)
(* C1: whenever solve_stagecoach_dp returns a result, f_star[x] of every   *)
(* node x with an entry (and some path to goal) is the optimum, over all   *)
(* paths from x to goal, of the aggregate of the path's edge weights.      *)
(***************************************************************************)
C1_FStarIsOptimum ==
    pc = "done" =>
        \A x \in DOMAIN f_star :
            GraphPaths(x) # {} =>
                f_star[x] = Fin(OptInt({PathAgg(p) : p \in GraphPaths(x)}))

(***************************************************************************)
(* C2: in a returned result, for every x with a policy entry and every y   *)
(* in policy[x], the edge (x,y) exists, f_star[y] is defined and           *)
(* combine(weight(x,y), f_star[y]) == f_star[x].                           *)
(***************************************************************************)
C2_PolicyConsistent ==
    pc = "done" =>
        \A x \in DOMAIN policy : \A n \in 1..Len(policy[x]) :
            /\ HasEdge(x, policy[x][n])
            /\ policy[x][n] \in DOMAIN f_star
            /\ FEq(Combine(combine_op, Fin(Weight(x, policy[x][n])),
                           f_star[policy[x][n]]),
                   f_star[x])

(***************************************************************************)
(* C3: every path returned by reconstruct_all_paths on the policy of a     *)
(* successful solve starts at start, ends at goal, uses only existing      *)
(* edges that advance one stage, and aggregates to optimal_cost.           *)
(***************************************************************************)
C3_PathsAreOptimal ==
    pc = "reconstructed" =>
        \A n \in 1..Len(all_paths) :
            /\ IsPath(all_paths[n])
            /\ optimal_cost = Fin(PathAgg(all_paths[n]))

C3_Witness ==
    /\ pc = "reconstructed"
    /\ Len(all_paths) >= 2
    /\ K >= 2
    /\ optimal_cost # Fin(0)

(***************************************************************************)
(* C4: reconstruct_all_paths returns every start-to-goal path of the graph *)
(* whose aggregate equals the optimum, each exactly once.                  *)
(***************************************************************************)
C4_AllOptimalPathsOnce ==
    pc = "reconstructed" =>
        /\ Range(all_paths) = OptimalPaths(start)
        /\ Cardinality(Range(all_paths)) = Len(all_paths)

(***************************************************************************)
(* C5: result.path is a start-to-goal path with one node per stage, and    *)
(* optimal_cost is the aggregate of its consecutive edge weights, started  *)
(* from the operator's identity.                                           *)
(***************************************************************************)
C5_RepresentativePathCost ==
    pc = "done" =>
        /\ Len(path) = K + 1
        /\ \A n \in 1..Len(path) : path[n] \in Range(layers[n])
        /\ IsPath(path)
        /\ optimal_cost = Fin(PathAgg(path))

C5_Witness ==
    /\ pc = "done"
    /\ K >= 2
    /\ combine_op = "*"
    /\ Cardinality(GraphPaths(start)) >= 2
    /\ optimal_cost # Fin(0)

(***************************************************************************)
(* C6: if the input passes validation and every node of every non-terminal *)
(* stage has an edge into the next stage, the representative-path walk     *)
(* never fails with the 'Path buntu' error.                                *)
(***************************************************************************)
C6_WalkNeverStuck ==
    (pc = "error" /\ err.kind = "path_buntu")
        => ~(\A x \in NonTerminal : HasNextStageEdge(x))

(***************************************************************************)
(* C7: if the input passes validation, the configuration is recognised and *)
(* some node of a non-terminal stage has no edge into the next stage, the  *)
(* solver returns no result and its failure is the dead-end error naming   *)
(* such a node and its 1-based stage.                                      *)
(***************************************************************************)
C7_DeadEndNamed ==
    (pc # "call" /\ ConfigOk /\ ValidateOutcome = "ok"
     /\ \E x \in NonTerminal : ~HasNextStageEdge(x))
        => /\ pc \in {"backward", "error"}
           /\ (pc = "error" =>
                /\ err.kind = "dead_end"
                /\ err.node \in NonTerminal
                /\ ~HasNextStageEdge(err.node)
                /\ err.stage = StageIdx(err.node))

(***************************************************************************)
(* C8: for inputs passing checks 1-4 whose edge endpoints are all known,   *)
(* validation fails with the structural error naming an edge that does not *)
(* advance exactly one stage whenever there is one, and succeeds only when *)
(* every edge advances exactly one stage.                                  *)
(***************************************************************************)
C8_EdgeStageCheck ==
    (pc # "call" /\ ConfigOk /\ Ok1 /\ Ok2 /\ Ok3 /\ Ok4 /\ Ok5)
        => IF Ok6 THEN ValidateOutcome = "ok"
           ELSE /\ pc = "error"
                /\ err.kind = "edge_stage"
                /\ HasEdge(err.node, err.to)
                /\ ~Advances(err.node, err.to)

C8_Witness ==
    /\ pc = "error"
    /\ err.kind = "edge_stage"
    /\ Ok5
    /\ StageIdx(err.to) = StageIdx(err.node) + 2

(***************************************************************************)
(* C9 as stated: validation fails with the error of the lowest-numbered    *)
(* violated check among checks 1-6; an unknown edge node anywhere in edges *)
(* wins over an edge that does not advance exactly one stage.              *)
(***************************************************************************)
LowestViolated ==
    IF ~Ok1 THEN "layers"
    ELSE IF ~Ok2 THEN "duplicate"
    ELSE IF ~Ok3 THEN "startgoal_unknown"
    ELSE IF ~Ok4 THEN "startgoal_stage"
    ELSE IF ~Ok5 THEN "unknown_node"
    ELSE IF ~Ok6 THEN "edge_stage"
    ELSE "ok"

C9_ChecksInOrder ==
    (pc # "call" /\ ConfigOk) => ValidateOutcome = LowestViolated

(***************************************************************************)
(* C9 amended: checks 1-4 are applied in order before any edge is looked   *)
(* at; checks 5 and 6 are applied together while scanning edges in         *)
(* iteration order (per source: source known; per destination: destination *)
(* known, then the stage step), and the failure is that of the first check *)
(* that fails in this scan.                                                *)
(***************************************************************************)
ScanPositions ==
    UNION {{<<j, n>> : n \in 0..Len(edges[j].nbrs)} : j \in 1..Len(edges)}

ScanBefore(p, q) == p[1] < q[1] \/ (p[1] = q[1] /\ p[2] < q[2])

ScanError(p) ==
    LET x == edges[p[1]].u IN
    IF p[2] = 0
    THEN (IF Known(x) THEN NoErr ELSE Err("unknown_node", x, 0, 0))
    ELSE LET y == edges[p[1]].nbrs[p[2]].v IN
         IF ~Known(x) THEN NoErr
         ELSE IF ~Known(y) THEN Err("unknown_node", y, 0, 0)
         ELSE IF ~Advances(x, y) THEN Err("edge_stage", x, y, 0)
         ELSE NoErr

FirstScanError ==
    LET off == {p \in ScanPositions : ScanError(p) # NoErr}
    IN  IF off = {} THEN NoErr
        ELSE ScanError(CHOOSE p \in off : \A q \in off : q = p \/ ScanBefore(p, q))

C9_ChecksInScanOrder ==
    (pc # "call" /\ ConfigOk) =>
        IF ~Ok1 THEN ValidateOutcome = "layers"
        ELSE IF ~Ok2 THEN ValidateOutcome = "duplicate"
        ELSE IF ~Ok3 THEN ValidateOutcome = "startgoal_unknown"
        ELSE IF ~Ok4 THEN ValidateOutcome = "startgoal_stage"
        ELSE IF FirstScanError = NoErr THEN ValidateOutcome = "ok"
        ELSE pc = "error" /\ err = FirstScanError

C9_Witness ==
    /\ pc = "error"
    /\ err.kind = "edge_stage"
    /\ Ok1 /\ Ok2 /\ Ok3 /\ Ok4
    /\ ~Ok5

(***************************************************************************)
(* C10: result.tables has K entries and its n-th entry is the table titled *)
(* 'Stage n'.                                                              *)
(***************************************************************************)
C10_TablesForwardOrder ==
    pc = "done" =>
        /\ Len(tables) = K
        /\ \A n \in 1..K : tables[n].stage = n

(***************************************************************************)
(* C11: on a graph with strictly positive weights, when the call with '+'  *)
(* and 'min' succeeds, the call on the same inputs with 'max' succeeds     *)
(* too and its optimal_cost is at least the optimal_cost of 'min'.         *)
(***************************************************************************)
FGe(a, b) == FGt(a, b) \/ FEq(a, b)

C11_MaxAtLeastMin ==
    (pc = "done" /\ opt_mode = "min" /\ combine_op = "+")
        => /\ solve_stagecoach_dp(layers, edges, start, goal, "max", "+").kind = "ok"
           /\ FGe(solve_stagecoach_dp(layers, edges, start, goal, "max", "+").f_star[start], optimal_cost)

\* A successful 'min' call on a graph of at least three stages where 'max'
\* is strictly larger.
C11_Witness ==
    /\ pc = "done" /\ opt_mode = "min" /\ combine_op = "+" /\ K >= 2
    /\ solve_stagecoach_dp(layers, edges, start, goal, "max", "+").kind = "ok"
    /\ FGt(solve_stagecoach_dp(layers, edges, start, goal, "max", "+").f_star[start], optimal_cost)

(***************************************************************************)
(* C12: every call terminates, with a result or an error, and so does      *)
(* reconstruct_all_paths on the policy of a successful call.  Rank is a    *)
(* natural number that every step strictly decreases, and a step is        *)
(* possible until the call has failed or the paths are reconstructed, so   *)
(* every run is finite and ends there.  The backward pass processes the    *)
(* stages K, K-1, ..., 1 (indices K-1..0) once each, the walk takes at     *)
(* most K steps, each policy step advances exactly one stage, and the      *)
(* recursion of dfs is at most as deep as there are stages.                *)
(***************************************************************************)
\* Steps of the backward pass still to take: one per node and one per stage.
BackRemaining ==
    IF t < 0 THEN 0
    ELSE SumTo([s \in 1..(t + 1) |-> Len(layers[s]) + 1], t + 1) - (i - 1)

Rank ==
    CASE pc = "call" -> Len(Flatten(layers)) + Len(layers) + K + 5
      [] pc = "backward" -> BackRemaining + K + 4
      [] pc = "walk" -> (K + 1 - Len(path)) + 2
      [] pc = "done" -> 1
      [] OTHER -> 0

Terminated == pc \in {"error", "reconstructed"}

PolicyAdvances ==
    \A x \in DOMAIN policy : \A j \in 1..Len(policy[x]) :
        Known(policy[x][j]) /\ StageIdx(policy[x][j]) = StageIdx(x) + 1

C12_Bounded ==
    /\ Rank >= 0
    /\ ~Terminated => ENABLED Next
    /\ \A j \in 1..Len(tables) : tables[j].stage = K + 1 - j
    /\ pc \in {"walk", "done", "reconstructed"} => Len(tables) = K
    /\ pc \in {"walk", "done", "reconstructed"} => Len(path) - 1 <= K
    /\ pc \in {"backward", "walk", "done", "reconstructed"} => PolicyAdvances
    /\ pc \in {"done", "reconstructed"} => dfsDepth(policy, goal, start) <= Len(layers)
    /\ pc = "reconstructed" => \A j \in 1..Len(all_paths) : Len(all_paths[j]) <= Len(layers)

C12_Terminates == []C12_Bounded /\ [][Rank' < Rank]_vars

\* A successful call on four stages whose walk took K steps and whose
\* reconstruction recursed through every stage on more than one branch.
C12_Witness ==
    /\ pc = "reconstructed" /\ K >= 3
    /\ Len(path) - 1 = K
    /\ dfsDepth(policy, goal, start) = Len(layers)
    /\ Len(all_paths) >= 2

(***************************************************************************)
(* C13: after a successful call, the representative path starts at start,  *)
(* ends at goal and moves from each of its nodes x to the first node, in   *)
(* the declared order of the next stage, among the neighbours y of x with  *)
(* combine(weight(x, y), f_star[y]) = f_star[x]; policy[x] lists exactly   *)
(* these neighbours in that order; and the path is the first one that      *)
(* reconstruct_all_paths returns.                                          *)
(***************************************************************************)
IsTied(x, y) ==
    /\ HasEdge(x, y)
    /\ y \in DOMAIN f_star
    /\ FEq(Combine(combine_op, Fin(Weight(x, y)), f_star[y]), f_star[x])

TiedSuccessors(x) ==
    SelectSeq(layers[StageIdx(x) + 1], LAMBDA y : IsTied(x, y))

C13_FirstTiedPath ==
    /\ pc \in {"done", "reconstructed"} =>
          /\ path[1] = start
          /\ path[Len(path)] = goal
          /\ \A j \in 1..(Len(path) - 1) :
                /\ policy[path[j]] = TiedSuccessors(path[j])
                /\ path[j + 1] = TiedSuccessors(path[j])[1]
    /\ pc = "reconstructed" => all_paths # <<>> /\ all_paths[1] = path

\* A reconstructed call on at least three stages whose path passes a node
\* with two tied successors reached by edges of different weights.
C13_Witness ==
    /\ pc = "reconstructed" /\ K >= 2
    /\ Len(all_paths) >= 2
    /\ \E j \in 1..(Len(path) - 1) :
          /\ Len(policy[path[j]]) >= 2
          /\ Weight(path[j], policy[path[j]][1]) # Weight(path[j], policy[path[j]][2])

(***************************************************************************)
(* C14: whenever the output page is shown with both cfg and result set,    *)
(* the stored result and all_paths are those computed by solving the       *)
(* stored cfg.                                                             *)
(***************************************************************************)
SolveCfg(c) ==
    solve_stagecoach_dp(c.layers, c.edges, c.start, c.goal, c.opt_mode, c.combine_op)

C14_ResultOfStoredCfg ==
    TabsShown =>
        /\ session_state.result = SolveCfg(session_state.cfg)
        /\ session_state.all_paths =
              reconstruct_all_paths(session_state.result.policy,
                                    session_state.cfg.start, session_state.cfg.goal)

=============================================================================
